---- MODULE Spec2Model ----
(***************************************************************************)
(* Model of src/flight_data.py: FlightDataProcessor.is_dirty_record,       *)
(* analyze_data (the scan over the corpus of files), and the two           *)
(* reductions _calculate_duration_stats and _calculate_passenger_stats.    *)
(*                                                                         *)
(* Cities are identified by their index: CITY_i is the integer i.  Dates   *)
(* are day numbers.  A decoded JSON value is a record tagged by its kind.  *)
(* Floating point results (np.mean, np.percentile) are modelled as exact   *)
(* rationals in lowest terms.                                              *)
(***************************************************************************)
EXTENDS Integers, Sequences, FiniteSets, TLC

VARIABLES
    pc,        \* position of the running operation
    todo,      \* files os.walk has still to yield
    records,   \* records of the open file not yet handled
    file,      \* the file visited last: what kind it is
    agg,       \* the locals of analyze_data: totals and both aggregators
    snap,      \* agg as it was when the file visited last was reached
    ref,       \* agg of a scan that meets only the readable, decodable files
    audit,     \* history: what has been visited, parsed, routed, expected
    stats,     \* the report assembled at the end of analyze_data
    arg,       \* argument of the pure function under check
    ret        \* its result

vars == <<pc, todo, records, file, agg, snap, ref, audit, stats, arg, ret>>

(***************************************************************************)
(* Bounds of the model.                                                    *)
(***************************************************************************)
NumCities == 2         \* self.num_cities
MaxFiles == 2          \* files in the corpus
MaxRecords == 2        \* elements of one JSON array

(***************************************************************************)
(* Generic helpers.                                                        *)
(***************************************************************************)
Range(s) == {s[i] : i \in 1..Len(s)}

Min(a, b) == IF a <= b THEN a ELSE b

SeqsUpTo(S, n) == UNION {[1..k -> S] : k \in 0..n}

RECURSIVE SeqSum(_)
SeqSum(s) == IF s = <<>> THEN 0 ELSE Head(s) + SeqSum(Tail(s))

(***************************************************************************)
(* Decoded records.  A field of a mapping is absent (key not in the dict), *)
(* null (None) or holds a value.                                           *)
(***************************************************************************)
Absent == [st |-> "absent"]
Null == [st |-> "null"]
Val(x) == [st |-> "val", v |-> x]

Keys == {"date", "origin_city", "destination_city", "flight_duration_secs", "passengers"}

Rec(date, origin, dest, duration, passengers) ==
    [k \in Keys |->
        CASE k = "date" -> date
          [] k = "origin_city" -> origin
          [] k = "destination_city" -> dest
          [] k = "flight_duration_secs" -> duration
          [] k = "passengers" -> passengers]

\* self.cities = [CITY_0 .. CITY_{num_cities-1}], in list order
cities == [i \in 1..NumCities |-> i - 1]

\* a city name that is not in self.cities
UnknownCity == NumCities

(***************************************************************************)
(* is_dirty_record                                                         *)
(***************************************************************************)
required_keys == <<"origin_city", "destination_city", "flight_duration_secs", "passengers">>

\* `key not in record or record[key] is None`
MissingOrNone(record, key) == record[key].st = "absent" \/ record[key].st = "null"

\* variant: destination_city left out of the required keys
is_dirty_skips_destination(record) ==
    \E i \in 1..Len(required_keys) :
        required_keys[i] # "destination_city" /\ MissingOrNone(record, required_keys[i])

is_dirty_record(record) ==
    \E i \in 1..Len(required_keys) : MissingOrNone(record, required_keys[i])

(***************************************************************************)
(* The aggregators of analyze_data.  flight_durations is a dict in         *)
(* insertion order: a sequence of [city, durations]; city_passengers is a  *)
(* dict in the order of self.cities: a sequence of [city, arrived, left].  *)
(***************************************************************************)
DictHas(d, k) == \E i \in 1..Len(d) : d[i].city = k

DictIndex(d, k) == CHOOSE i \in 1..Len(d) : d[i].city = k

InitAgg ==
    [total_records |-> 0,
     dirty_records |-> 0,
     flight_durations |-> <<>>,
     city_passengers |-> [i \in 1..NumCities |-> [city |-> cities[i], arrived |-> 0, left |-> 0]]]

\* elements of a decoded array: a dict, a number, or a string
Obj(r) == [kind |-> "object", rec |-> r]
Num == [kind |-> "number"]
Str == [kind |-> "string"]

\* the mapping is_dirty_record sees; `key in "text"` is a substring test that
\* fails for a string that holds none of the required keys
EmptyMapping == [k \in Keys |-> Absent]
AsMapping(e) == IF e.kind = "object" THEN e.rec ELSE EmptyMapping

\* `key not in record` raises TypeError on an int
SupportsIn(e) == e.kind # "number"

\* lines 118-147: the body of `for record in records`, and how it ends
HandleRecord(a, e) ==
    LET a1 == [a EXCEPT !.total_records = @ + 1] IN
    IF ~SupportsIn(e) THEN [agg |-> a1, outcome |-> "type_error"]
    ELSE LET record == AsMapping(e) IN
    IF is_dirty_record(record)
    THEN [agg |-> [a1 EXCEPT !.dirty_records = @ + 1], outcome |-> "dirty"]
    ELSE IF MissingOrNone(record, "passengers")
    THEN [agg |-> [a1 EXCEPT !.dirty_records = @ + 1], outcome |-> "dirty_passengers"]
    ELSE
    LET dest == record["destination_city"].v
        origin == record["origin_city"].v
        fd1 == IF DictHas(a1.flight_durations, dest)
               THEN a1.flight_durations
               ELSE Append(a1.flight_durations, [city |-> dest, durations |-> <<>>])
        fd2 == IF ~MissingOrNone(record, "flight_duration_secs")
               THEN [fd1 EXCEPT ![DictIndex(fd1, dest)].durations =
                                    Append(@, record["flight_duration_secs"].v)]
               ELSE fd1
        passengers == record["passengers"].v
        a2 == [a1 EXCEPT !.flight_durations = fd2]
    IN  IF ~DictHas(a2.city_passengers, dest)
        THEN [agg |-> a2, outcome |-> "key_error_destination"]
        ELSE
        LET a3 == [a2 EXCEPT !.city_passengers[DictIndex(a2.city_passengers, dest)].arrived =
                                    @ + passengers]
        IN  IF ~DictHas(a3.city_passengers, origin)
            THEN [agg |-> a3, outcome |-> "key_error_origin"]
            ELSE [agg |-> [a3 EXCEPT !.city_passengers[DictIndex(a3.city_passengers, origin)].left =
                                    @ + passengers],
                  outcome |-> "aggregated"]

\* the outcomes that leave the loop through `except Exception` (line 149)
Raised(outcome) == outcome \in {"type_error", "key_error_destination", "key_error_origin"}

\* lines 117-151 for one decoded file: the records in order, until one raises
RECURSIVE HandleRecords(_, _)
HandleRecords(a, rs) ==
    IF rs = <<>> THEN a
    ELSE LET h == HandleRecord(a, Head(rs)) IN
         IF Raised(h.outcome) THEN h.agg ELSE HandleRecords(h.agg, Tail(rs))

(***************************************************************************)
(* _calculate_duration_stats                                               *)
(***************************************************************************)
TopK == 25             \* the slice [:25]
Percentile == 95       \* np.percentile(durations, 95)

RECURSIVE GCD(_, _)
GCD(a, b) == IF b = 0 THEN a ELSE GCD(b, a % b)

\* the rational n/d in lowest terms (d > 0, n >= 0)
Rat(n, d) == LET g == GCD(n, d) IN [num |-> n \div g, den |-> d \div g]

RECURSIVE InsertAsc(_, _)
InsertAsc(s, x) ==
    IF s = <<>> THEN <<x>>
    ELSE IF x < Head(s) THEN <<x>> \o s
    ELSE <<Head(s)>> \o InsertAsc(Tail(s), x)

RECURSIVE SortAsc(_)
SortAsc(s) == IF s = <<>> THEN <<>> ELSE InsertAsc(SortAsc(Tail(s)), Head(s))

\* np.mean: the sum over the count
np_mean(durations) == Rat(SeqSum(durations), Len(durations))

\* variant: the sample at the nearest rank, without interpolation
np_percentile_nearest(durations, q) ==
    LET s == SortAsc(durations)
        n == Len(s)
        h == q * (n - 1)
    IN  Rat(s[((h + 50) \div 100) + 1], 1)

\* np.percentile, method 'linear': virtual index q/100 * (n-1) into the sorted
\* samples, interpolated between its two neighbours
np_percentile(durations, q) ==
    LET s == SortAsc(durations)
        n == Len(s)
        h == q * (n - 1)
        lo == h \div 100
        a == s[lo + 1]
        b == s[Min(lo + 2, n)]
    IN  Rat(100 * a + (b - a) * (h % 100), 100)

\* sorted(..., key=len(flight_durations[city]), reverse=True) is stable: an
\* entry goes behind every entry whose count is at least its own.  Entries
\* are the positions of the cities in flight_durations.
RECURSIVE InsertByCount(_, _, _)
InsertByCount(order, i, fd) ==
    IF order = <<>> THEN <<i>>
    ELSE IF Len(fd[Head(order)].durations) >= Len(fd[i].durations)
         THEN <<Head(order)>> \o InsertByCount(Tail(order), i, fd)
         ELSE <<i>> \o order

RECURSIVE SortByCount(_, _, _)
SortByCount(fd, n, order) ==
    IF n > Len(fd) THEN order
    ELSE SortByCount(fd, n + 1,
            IF Len(fd[n].durations) > 0 THEN InsertByCount(order, n, fd) ELSE order)

\* variant: a slice one entry short
SliceOneShort(s, k) == SubSeq(s, 1, Min(k - 1, Len(s)))

\* the slice [:k]
Slice(s, k) == SubSeq(s, 1, Min(k, Len(s)))

\* lines 165-177; the result is a dict in insertion order: a sequence of
\* [city, avg, p95]
calculate_duration_stats(flight_durations) ==
    LET order == Slice(SortByCount(flight_durations, 1, <<>>), TopK)
    IN  [j \in 1..Len(order) |->
            [city |-> flight_durations[order[j]].city,
             avg |-> np_mean(flight_durations[order[j]].durations),
             p95 |-> np_percentile(flight_durations[order[j]].durations, Percentile)]]

(***************************************************************************)
(* _calculate_passenger_stats                                              *)
(***************************************************************************)
RECURSIVE MaxFrom(_, _, _, _)
MaxFrom(cp, field, i, best) ==
    IF i > Len(cp) THEN best
    ELSE MaxFrom(cp, field, i + 1, IF cp[i][field] > cp[best][field] THEN i ELSE best)

\* variant: a later item with an equal key replaces the best so far
RECURSIVE MaxFromLast(_, _, _, _)
MaxFromLast(cp, field, i, best) ==
    IF i > Len(cp) THEN best
    ELSE MaxFromLast(cp, field, i + 1, IF cp[i][field] >= cp[best][field] THEN i ELSE best)

py_max_last(cp, field) == cp[MaxFromLast(cp, field, 2, 1)]

\* max(city_passengers.items(), key=...): the first item whose key no later
\* item exceeds
py_max(cp, field) == cp[MaxFrom(cp, field, 2, 1)]

\* lines 183-192
calculate_passenger_stats(city_passengers) ==
    LET max_arrived == py_max(city_passengers, "arrived")
        max_left == py_max(city_passengers, "left")
    IN  [max_arrived |-> [city |-> max_arrived.city, passengers |-> max_arrived.arrived],
         max_left |-> [city |-> max_left.city, passengers |-> max_left.left]]

(***************************************************************************)
(* The corpus.  A file under base_dir is one whose name does not end in    *)
(* .json, one open() fails on, one json.load rejects, or one that decodes  *)
(* to a JSON value: an array, an object or a scalar.                       *)
(***************************************************************************)
Day == Val(1)

\* the records of the corpus: Rec(date, origin, destination, duration, passengers)
CleanOutbound == Obj(Rec(Day, Val(0), Val(1), Val(10), Val(1)))
NullDuration == Obj(Rec(Day, Val(1), Val(0), Null, Val(2)))
UnknownDestination == Obj(Rec(Day, Val(1), Val(UnknownCity), Val(30), Val(1)))
UnknownOrigin == Obj(Rec(Day, Val(UnknownCity), Val(0), Val(20), Val(2)))

ScanElements == {CleanOutbound, NullDuration, UnknownDestination, UnknownOrigin, Num}

JsonArray(items) == [kind |-> "array", items |-> items]
JsonObject == [kind |-> "object"]      \* {"error": ...}: a dict with one key
JsonNumber == [kind |-> "number"]

JsonValues ==
    {JsonArray(items) : items \in SeqsUpTo(ScanElements, MaxRecords)}
        \cup {JsonObject, JsonNumber}

\* `for record in records` raises TypeError on a number
Iterable(v) == v.kind \in {"array", "object"}

\* what the loop iterates over: the elements of a list, the keys of a dict
Iter(v) == IF v.kind = "array" THEN v.items ELSE <<Str>>

IsArrayOfObjects(v) ==
    v.kind = "array" /\ \A i \in 1..Len(v.items) : v.items[i].kind = "object"

IsClean(e) == e.kind = "object" /\ ~is_dirty_record(e.rec)

\* passengers of the clean records of items whose city under key is c
RECURSIVE CleanPassengers(_, _, _)
CleanPassengers(items, key, c) ==
    IF items = <<>> THEN 0
    ELSE (IF IsClean(Head(items)) /\ Head(items).rec[key].v = c
          THEN Head(items).rec["passengers"].v ELSE 0)
         + CleanPassengers(Tail(items), key, c)

InitAudit ==
    [visited |-> 0, failed |-> 0, parsed_len |-> 0, routed |-> 0, flowed |-> 0,
     exp_arrived |-> [i \in 1..NumCities |-> 0],
     exp_left |-> [i \in 1..NumCities |-> 0]]

NoFile == [kind |-> "none"]

NoStats == <<>>

(***************************************************************************)
(* analyze_data                                                            *)
(***************************************************************************)
PureIdle == arg = <<>> /\ ret = <<>>

ScanIdle ==
    /\ todo = 0 /\ records = <<>> /\ file = NoFile
    /\ agg = InitAgg /\ snap = InitAgg /\ ref = InitAgg
    /\ audit = InitAudit @@ [nfiles |-> 0]
    /\ stats = NoStats

\* lines 97-102
Init ==
    /\ pc = "walk"
    /\ todo \in 0..MaxFiles
    /\ records = <<>>
    /\ file = NoFile
    /\ agg = InitAgg /\ snap = InitAgg /\ ref = InitAgg
    /\ audit = InitAudit @@ [nfiles |-> todo]
    /\ stats = NoStats
    /\ PureIdle

\* variant: the walk is left, no file remains to visit
abandon_scan(t) == 0

\* `continue` (lines 107, 115, 151): on to the next file of the walk
continue_scan(t) == t

\* a file the scan reaches and leaves without a record loop
PassOver(f) ==
    /\ pc = "walk" /\ todo > 0
    /\ file' = f
    /\ snap' = agg
    /\ audit' = [audit EXCEPT
            !.visited = @ + 1,
            !.failed = @ + (IF f.kind \in {"unreadable", "malformed"} THEN 1 ELSE 0)]
    /\ todo' = continue_scan(todo - 1)
    /\ UNCHANGED <<pc, records, agg, ref, stats, arg, ret>>

\* lines 106-107
SkipNonJson == PassOver([kind |-> "other"])

\* line 110 raises OSError; lines 149-151
OpenFails == PassOver([kind |-> "unreadable"])

\* line 112 raises JSONDecodeError; lines 113-115
DecodeFails == PassOver([kind |-> "malformed"])

\* lines 110-117: json.load returns v and the record loop is entered, or
\* raises at once on a value that cannot be iterated
LoadFile ==
    /\ pc = "walk" /\ todo > 0
    /\ \E v \in JsonValues :
        LET items == IF Iterable(v) THEN Iter(v) ELSE <<>> IN
        /\ file' = [kind |-> "json", array_of_objects |-> IsArrayOfObjects(v)]
        /\ snap' = agg
        /\ ref' = HandleRecords(ref, items)
        /\ audit' = [audit EXCEPT
                !.visited = @ + 1,
                !.parsed_len = @ + Len(items),
                !.exp_arrived = [i \in 1..NumCities |->
                    @[i] + CleanPassengers(items, "destination_city", cities[i])],
                !.exp_left = [i \in 1..NumCities |->
                    @[i] + CleanPassengers(items, "origin_city", cities[i])]]
        /\ records' = items
        /\ pc' = IF items = <<>> THEN "walk" ELSE "records"
        /\ todo' = IF Iterable(v) THEN todo - 1 ELSE continue_scan(todo - 1)
    /\ UNCHANGED <<agg, stats, arg, ret>>

\* lines 117-151: one pass of the record loop, ending in one of outcomes
HandleNext(outcomes) ==
    /\ pc = "records"
    /\ LET h == HandleRecord(agg, Head(records)) IN
        /\ h.outcome \in outcomes
        /\ agg' = h.agg
        /\ audit' = [audit EXCEPT
                !.routed = @ + (IF h.outcome \in
                        {"key_error_destination", "key_error_origin", "aggregated"}
                    THEN 1 ELSE 0),
                !.flowed = @ + (IF h.outcome \in {"key_error_origin", "aggregated"}
                    THEN 1 ELSE 0)]
        /\ IF Raised(h.outcome)
           THEN records' = <<>> /\ pc' = "walk" /\ todo' = continue_scan(todo)
           ELSE /\ records' = Tail(records)
                /\ pc' = IF Tail(records) = <<>> THEN "walk" ELSE "records"
                /\ todo' = todo
    /\ UNCHANGED <<file, snap, ref, stats, arg, ret>>

\* lines 120-129
RecordDirty == HandleNext({"dirty", "dirty_passengers"})

\* lines 131-147
RecordAggregated == HandleNext({"aggregated"})

\* lines 149-151
RecordRaises == HandleNext({"type_error", "key_error_destination", "key_error_origin"})

\* lines 153-161
Finish ==
    /\ pc = "walk" /\ todo = 0
    /\ stats' = [total_records |-> agg.total_records,
                 dirty_records |-> agg.dirty_records,
                 duration_stats |-> calculate_duration_stats(agg.flight_durations),
                 passenger_stats |-> calculate_passenger_stats(agg.city_passengers)]
    /\ pc' = "done"
    /\ UNCHANGED <<todo, records, file, agg, snap, ref, audit, arg, ret>>

Next ==
    \/ SkipNonJson
    \/ OpenFails
    \/ DecodeFails
    \/ LoadFile
    \/ RecordDirty
    \/ RecordAggregated
    \/ RecordRaises
    \/ Finish

Spec == Init /\ [][Next]_vars

(***************************************************************************)
(* Properties of the scan.                                                 *)
(***************************************************************************)
RECURSIVE SumField(_, _)
SumField(cp, field) ==
    IF cp = <<>> THEN 0 ELSE Head(cp)[field] + SumField(Tail(cp), field)

RECURSIVE SampleCount(_)
SampleCount(fd) ==
    IF fd = <<>> THEN 0 ELSE Len(Head(fd).durations) + SampleCount(Tail(fd))

\* C1: after the scan, total_records is the sum of the lengths of the arrays
\* of all files that decoded, whatever their records are.
C1_TotalIsSumOfLengths ==
    pc = "done" => stats.total_records = audit.parsed_len

\* C2: dirty_records plus the records routed to aggregation is total_records:
\* every counted record is dirty or aggregated, exactly once.
C2_EveryRecordClassifiedOnce ==
    pc # "records" => agg.dirty_records + audit.routed = agg.total_records

\* C4: a file that cannot be opened or decoded changes nothing and does not
\* end the scan: every file of the corpus is visited and the totals and both
\* aggregators are those of the scan over the corpus without such files.
C4_BadFileIsSkipped ==
    /\ file.kind \in {"unreadable", "malformed"} => pc # "records" /\ agg = snap
    /\ pc # "records" => agg = ref
    /\ pc = "done" =>
        /\ audit.visited = audit.nfiles
        /\ stats.total_records = ref.total_records
        /\ stats.dirty_records = ref.dirty_records

C4_Witness ==
    /\ pc = "done"
    /\ audit.failed > 0
    /\ file.kind = "json"
    /\ agg.total_records > 0
    /\ agg.flight_durations # <<>>

\* C5: a file that decodes to something other than an array of objects is
\* skipped whole: the totals and both aggregators are as they were before it.
C5_NonArrayFileContributesNothing ==
    (pc # "records" /\ file.kind = "json" /\ ~file.array_of_objects) => agg = snap

\* C8: after the scan every known city's arrived (left) is the sum of the
\* passengers of all clean records with that destination (origin).
C8_FlowsAreSumsOverCleanRecords ==
    pc = "done" =>
        \A i \in 1..NumCities :
            /\ agg.city_passengers[i].arrived = audit.exp_arrived[i]
            /\ agg.city_passengers[i].left = audit.exp_left[i]

\* C10: between records and at the end, arrived summed over the cities equals
\* left summed over the cities, and there are as many duration samples as
\* records that incremented the flow counters.
C10_AggregationAllOrNothing ==
    /\ SumField(agg.city_passengers, "arrived") = SumField(agg.city_passengers, "left")
    /\ SampleCount(agg.flight_durations) = audit.flowed

(***************************************************************************)
(* is_dirty_record on every mapping over the five known keys.              *)
(***************************************************************************)
FieldStates(values) == {Absent, Null} \cup {Val(x) : x \in values}

DirtyInputs ==
    {Rec(date, origin, dest, duration, passengers) :
        date \in FieldStates({1, 2}),
        origin \in FieldStates({0}),
        dest \in FieldStates({1}),
        duration \in FieldStates({10}),
        passengers \in FieldStates({1})}

InitDirty ==
    /\ pc = "call"
    /\ arg \in DirtyInputs
    /\ ret = <<>>
    /\ ScanIdle

CallIsDirty ==
    /\ pc = "call"
    /\ ret' = is_dirty_record(arg)
    /\ pc' = "return"
    /\ UNCHANGED <<todo, records, file, agg, snap, ref, audit, stats, arg>>

NextDirty == CallIsDirty

SpecDirty == InitDirty /\ [][NextDirty]_vars

MaxDests == 40         \* destinations of a mapping
MaxPeriod == 3         \* length of the pattern the sample counts repeat
MaxSamples == 3        \* samples of one destination

\* k samples: 10, 20, ..
Ramp(k) == [i \in 1..k |-> 10 * i]

\* the samples 10, 20, .., 100 in the order they arrived
Decade == <<50, 10, 100, 30, 80, 20, 70, 40, 90, 60>>

SampleLists == SeqsUpTo({10, 20, 40}, MaxSamples) \cup {Decade}

\* n destinations whose sample counts repeat a pattern
Periodic(n, pattern) ==
    [i \in 1..n |-> [city |-> i - 1,
                     durations |-> Ramp(pattern[((i - 1) % Len(pattern)) + 1])]]

DurationInputs ==
    {Periodic(n, pattern) :
        n \in 0..MaxDests, pattern \in SeqsUpTo(0..2, MaxPeriod) \ {<<>>}}
    \cup {<<[city |-> 0, durations |-> a]>> : a \in SampleLists}
    \cup {<<[city |-> 0, durations |-> a], [city |-> 1, durations |-> b]>> :
            a \in SampleLists, b \in SampleLists}

InitDuration ==
    /\ pc = "call"
    /\ arg \in DurationInputs
    /\ ret = <<>>
    /\ ScanIdle

CallDurationStats ==
    /\ pc = "call"
    /\ ret' = calculate_duration_stats(arg)
    /\ pc' = "return"
    /\ UNCHANGED <<todo, records, file, agg, snap, ref, audit, stats, arg>>

NextDuration == CallDurationStats

SpecDuration == InitDuration /\ [][NextDuration]_vars

\* position of a city in the mapping, and its samples
Position(fd, city) == CHOOSE i \in 1..Len(fd) : fd[i].city = city

SamplesOf(fd, city) == fd[Position(fd, city)].durations

Reported(result) == {result[j].city : j \in 1..Len(result)}

\* C6: the report holds min(25, destinations with a sample) entries, none
\* without samples, none with fewer samples than a destination left out,
\* ordered by sample count descending, equal counts in insertion order.
C6_TopDestinationsByCount ==
    pc = "return" =>
        /\ Len(ret) = Min(25, Cardinality({i \in 1..Len(arg) : Len(arg[i].durations) > 0}))
        /\ \A j \in 1..Len(ret) :
            /\ \E i \in 1..Len(arg) : arg[i].city = ret[j].city
            /\ Len(SamplesOf(arg, ret[j].city)) > 0
            /\ \A i \in 1..Len(arg) :
                arg[i].city \notin Reported(ret) =>
                    Len(SamplesOf(arg, ret[j].city)) >= Len(arg[i].durations)
        /\ \A j, k \in 1..Len(ret) :
            j < k =>
                LET cj == Len(SamplesOf(arg, ret[j].city))
                    ck == Len(SamplesOf(arg, ret[k].city))
                IN  /\ cj >= ck
                    /\ cj = ck => Position(arg, ret[j].city) < Position(arg, ret[k].city)

C6_Witness ==
    /\ pc = "return"
    /\ Len(ret) = 25
    /\ Cardinality({i \in 1..Len(arg) : Len(arg[i].durations) > 0}) > 25
    /\ \E i \in 1..Len(arg) : arg[i].durations = <<>>
    /\ Len(SamplesOf(arg, ret[1].city)) = Len(SamplesOf(arg, ret[2].city))
    /\ Len(SamplesOf(arg, ret[1].city)) > Len(SamplesOf(arg, ret[25].city))
    /\ ret[1].city # arg[1].city

\* the k-th smallest sample (k from 0), by counting
OrderStat(d, k) ==
    CHOOSE v \in Range(d) :
        /\ Cardinality({i \in 1..Len(d) : d[i] < v}) <= k
        /\ k < Cardinality({i \in 1..Len(d) : d[i] <= v})

MaxPaxCities == 3      \* cities of a mapping
MaxPax == 2            \* value of a counter

PassengerInputs ==
    UNION {[1..n -> [arrived : 0..MaxPax, left : 0..MaxPax]] : n \in 1..MaxPaxCities}

InitPassenger ==
    /\ pc = "call"
    /\ \E counters \in PassengerInputs :
        arg = [i \in 1..Len(counters) |->
                [city |-> i - 1, arrived |-> counters[i].arrived, left |-> counters[i].left]]
    /\ ret = <<>>
    /\ ScanIdle

CallPassengerStats ==
    /\ pc = "call"
    /\ ret' = calculate_passenger_stats(arg)
    /\ pc' = "return"
    /\ UNCHANGED <<todo, records, file, agg, snap, ref, audit, stats, arg>>

NextPassenger == CallPassengerStats

SpecPassenger == InitPassenger /\ [][NextPassenger]_vars

\* the entry names the first city, in iteration order, whose counter no city exceeds
FirstMax(cp, field, entry) ==
    \E i \in 1..Len(cp) :
        /\ cp[i].city = entry.city
        /\ cp[i][field] = entry.passengers
        /\ \A k \in 1..Len(cp) : cp[k][field] <= entry.passengers
        /\ \A k \in 1..(i - 1) : cp[k][field] < entry.passengers

\* C9: max_arrived names a city whose arrived counter no city exceeds, with
\* that value, and max_left likewise for left; among several such cities the
\* first in iteration order is named.
C9_MaxCityFirstOnTies ==
    pc = "return" =>
        /\ FirstMax(arg, "arrived", ret.max_arrived)
        /\ FirstMax(arg, "left", ret.max_left)

C9_Witness ==
    /\ pc = "return"
    /\ Len(arg) = 3
    /\ arg[1].arrived < arg[2].arrived
    /\ arg[2].arrived = arg[3].arrived
    /\ ret.max_arrived = [city |-> arg[2].city, passengers |-> arg[2].arrived]
    /\ arg[1].left > arg[2].left
    /\ arg[1].left = arg[3].left
    /\ ret.max_left = [city |-> arg[1].city, passengers |-> arg[1].left]

====
